---- MODULE Spec2Model ----
(***************************************************************************)
(* cloudbuilder: template records, the local image cache, the metadata     *)
(* sidecar and the hypervisor inventory.                                   *)
(*                                                                         *)
(*   Spec         the build operations of template.py (TemplateManager)    *)
(*   SpecSync     sync_metadata_with_proxmox over any records and listing  *)
(*   SpecProxmox  the operations of proxmox.py (ProxmoxManager), among     *)
(*                other users of the hypervisor                            *)
(*   SpecMain     the run of cloudbuilder.py (main), with the              *)
(*                TemplateBuilder and ProxmoxManager classes of that file  *)
(***************************************************************************)
EXTENDS Integers, FiniteSets, Sequences, TLC

\* ---------------------------------------------------------------- bounds
VmidSpan == 1       \* identifiers MinVmid .. MinVmid + VmidSpan exist in the cluster
MaxClock == 2       \* wall-clock readings 1 .. MaxClock
MaxExt   == 1       \* steps taken by other users of the hypervisor
MaxRuns  == 2       \* invocations of cloudbuilder.py
MaxUses  == 2       \* fragments one catalog entry refers to
MaxStem  == 2       \* leading characters of a name that are drawn freely
MaxFiles == 2       \* entries of one copy_files mapping
MaxEntries == 2     \* entries of one catalog file

\* ------------------------------------------------------ program constants
Null    == 0        \* Python None (Optional fields of Template)
MinVmid == 9000     \* --min-vmid default

Names  == {"web", "db"}
Order  == <<"web", "db">>          \* iteration order of the templates dict
\* a name that is in no catalog entry (import_from_source takes any name)
OtherNames == {"old"}
AllNames == Names \cup OtherNames
Vmids  == MinVmid .. (MinVmid + VmidSpan)
Stamps == 1 .. MaxClock

\* Template: the three persisted fields of a record
Template == [build_date : {Null} \cup Stamps,
             last_update : {Null} \cup Stamps,
             vmid : {Null} \cup Vmids]
NewTemplate == [build_date |-> Null, last_update |-> Null, vmid |-> Null]

\* has_work of customize_image for the catalog entry: web installs packages,
\* db declares no packages, commands, files or ssh toggles
Catalog == [web |-> [has_work |-> TRUE], db |-> [has_work |-> FALSE]]

\* a hypervisor entity: kind "vm" is a created entity not yet marked as template
NoVM == [name |-> "none", kind |-> "none"]
VM(n, k) == [name |-> n, kind |-> k]

VARIABLES
    templates,   \* self.templates: name -> Template (in memory)
    metadata,    \* metadata.json: name -> Template (the sidecar)
    cache,       \* template_dir/<name>.qcow2: "none" | "complete"
    vms,         \* cluster: vmid -> entity
    linked,      \* vmids whose base disk is the parent of a linked clone
    broken,      \* vmids destroyed while a linked clone depended on them
    existing,    \* last result of get_existing_templates: name -> vmid | Null
    now,         \* wall clock
    ext,         \* steps taken so far by other users
    last,        \* outcome of the last operation
    args,        \* main: parsed command line
    pc,          \* main: "idle" | "loop" | "done"
    idx,         \* main: position in Order
    runs,        \* main: invocations so far
    dependents,  \* main: names whose listed vmid had a linked clone when the
                 \* run started
    passes,      \* main: whether each pass of the loop made so far in this run
                 \* ended without raising
    sidecar,     \* metadata.json as a file: whether it is missing, whole or
                 \* torn (cut short), and the JSON document it holds
    others,      \* self.templates for names outside the catalog
    config,      \* templates.yaml: what the catalog says beyond Catalog (the
                 \* copy_files mapping of its entries)
    pubs         \* import_template calls in progress in separate processes:
                 \* how far each has come and the identifier it holds

vars == <<templates, metadata, cache, vms, linked, broken, existing, now, ext,
          last, args, pc, idx, runs, dependents, passes, sidecar, others, config, pubs>>
fileVars == <<sidecar, others, config, pubs>>
mainVars == <<args, pc, idx, runs, dependents, passes>>

\* last: op and name say which operation ran on which template and ok whether it
\* returned without raising; ops are the qm commands issued, in order; src is
\* where the working image came from (for a removal, what qm destroy said);
\* ret/arg/pre/mid hold the operation's result, its argument, the record before
\* the call and the record's vmid after the removal step of a pass of main
\* (for a save: pre is the record set saved, arg the document it replaced, name
\* the template whose import saved; for a load that follows a save: pre is the
\* record set that was saved);
\* fetch is the outcome of an attempted transfer; local/remote are the
\* classification of the template; proc is the customization subprocess when
\* a build or a customize_image call returned; again says that the same
\* removal just ran
\* the sidecar before the first save; no record outside the catalog
NoOthers == [n \in {} |-> NewTemplate]
NoSidecar == [status |-> "missing", doc |-> [n \in {} |-> NewTemplate]]
NoConfig == [copy_files |-> <<>>]
Procs == {1, 2}
NoPubs == [p \in Procs |-> [phase |-> "idle", vmid |-> Null]]
NoArgs == [import_templates |-> FALSE, update |-> FALSE, replace |-> FALSE]
Idle == [op |-> "none", name |-> "none", ok |-> TRUE, src |-> "none",
         ops |-> <<>>, ret |-> Null, arg |-> Null, mid |-> Null, pre |-> Null,
         fetch |-> "none", local |-> FALSE, remote |-> FALSE, again |-> FALSE,
         proc |-> "none"]

Init ==
    /\ templates = [n \in Names |-> NewTemplate]
    /\ metadata = [n \in Names |-> NewTemplate]
    /\ cache = [n \in AllNames |-> "none"]
    /\ vms = [v \in Vmids |-> NoVM]
    /\ linked = {}
    /\ broken = {}
    /\ existing = [n \in Names |-> Null]
    /\ now = 1
    /\ ext = 0
    /\ last = Idle
    /\ args = NoArgs
    /\ pc = "idle"
    /\ idx = 1
    /\ runs = 0
    /\ dependents = {}
    /\ passes = <<>>
    /\ sidecar = NoSidecar
    /\ others = NoOthers
    /\ config = NoConfig
    /\ pubs = NoPubs

\* ------------------------------------------------------------ hypervisor
\* vmids of /cluster/resources --type vm
UsedVmids(v) == {i \in Vmids : v[i].kind # "none"}

RangeMax(S) == CHOOSE x \in S : \A y \in S : y <= x

\* get_existing_templates: templates[vm["name"]] = vm["vmid"] for template == 1,
\* a later entry of the listing replacing an earlier one of the same name
ListTemplates(v) ==
    [n \in Names |->
        LET ids == {i \in Vmids : v[i].kind = "template" /\ v[i].name = n}
        IN IF ids = {} THEN Null ELSE RangeMax(ids)]
NoTemplates == [n \in Names |-> Null]

\* how a listing can end: pvesh (or hostname) exits non-zero, or its output
\* is not JSON
ListOutcomes == {"ok", "command_error", "unparsable"}

\* ProxmoxManager.get_existing_templates of proxmox.py: CalledProcessError
\* returns {}, JSONDecodeError is caught around json.loads and the empty dict
\* is returned
get_existing_templates(v, outcome) ==
    [inv |-> IF outcome = "ok" THEN ListTemplates(v) ELSE NoTemplates,
     raised |-> FALSE]

\* ProxmoxManager.get_existing_templates of cloudbuilder.py: both exceptions
\* have an except clause that returns {}
get_existing_templates_cbRaisesUnparsable(v, outcome) ==
    [inv |-> IF outcome = "ok" THEN ListTemplates(v) ELSE NoTemplates,
     raised |-> outcome = "unparsable"]
get_existing_templates_cb(v, outcome) ==
    [inv |-> IF outcome = "ok" THEN ListTemplates(v) ELSE NoTemplates,
     raised |-> FALSE]

\* qm destroy <vmid>: the entity is gone; a linked clone of it loses its base
Destroyed(v, i) == [v EXCEPT ![i] = NoVM]


\* the effect of destroying the entities `gone` on the linked clones
LinkedAfter(gone) == linked \ gone
BrokenAfter(gone) == broken \cup (gone \cap linked)

\* ------------------------------------------------- template.py: records
\* sync_metadata_with_proxmox, one record: the remote identifier wins, and an
\* identifier whose name is not in the inventory is cleared (vmid_to_template
\* only selects the warning that is logged)
SyncRecordKeepsOwnStale(tpl, name, proxmox_templates) ==
    LET vmid_to_template == {proxmox_templates[m] : m \in Names} \ {Null}
    IN IF proxmox_templates[name] # Null
          THEN [tpl EXCEPT !.vmid = proxmox_templates[name]]
          ELSE IF tpl.vmid # Null /\ tpl.vmid \in vmid_to_template
                  THEN [tpl EXCEPT !.vmid = Null]
                  ELSE tpl
SyncRecord(tpl, name, proxmox_templates) ==
    IF proxmox_templates[name] # Null
       THEN (IF tpl.vmid # proxmox_templates[name]
                THEN [tpl EXCEPT !.vmid = proxmox_templates[name]]
                ELSE tpl)
       ELSE IF tpl.vmid # Null
               THEN [tpl EXCEPT !.vmid = Null]
               ELSE tpl

sync_metadata_with_proxmox(t, proxmox_templates) ==
    [n \in Names |-> SyncRecord(t[n], n, proxmox_templates)]

\* load_templates: a fresh Template per catalog name, fields from the sidecar
load_templates(m) == [n \in Names |-> m[n]]

\* template_exists_locally
template_exists_locally(t, c, n) == c[n] # "none" /\ t[n].build_date # Null

\* ------------------------------------------- proxmox.py: identifier allocator
RECURSIVE FirstFree(_, _)
FirstFreeIgnoresUsed(current_id, existing_vmids) == current_id
\* the while loop of _get_next_vmid
FirstFree(current_id, existing_vmids) ==
    IF current_id \in existing_vmids
       THEN FirstFree(current_id + 1, existing_vmids)
       ELSE current_id

get_next_vmid(min_vmid, v) == FirstFree(min_vmid, UsedVmids(v))

\* ------------------------------------------------- proxmox.py: remove
\* outcome of `qm destroy <vmid>`
DestroyOutcome(v, vmid, F) ==
    IF "destroy" \in F THEN "error"
    ELSE IF vmid \notin Vmids \/ v[vmid].kind = "none" THEN "does not exist"
    ELSE "ok"

RemoveRaisesWhenAbsent(t, v, n, F) ==
    LET vmid == t[n].vmid
        out == DestroyOutcome(v, vmid, F)
    IN IF vmid = Null
          THEN [t |-> t, vms |-> v, ops |-> <<>>, gone |-> {}, ok |-> TRUE]
          ELSE [t |-> t,
                vms |-> IF out = "ok" THEN Destroyed(v, vmid) ELSE v,
                ops |-> << <<"destroy", vmid>> >>,
                gone |-> IF out = "ok" THEN {vmid} ELSE {},
                ok |-> out = "ok"]
\* remove_template: "does not exist" is swallowed, the vmid is never cleared
remove_template(t, v, n, F) ==
    LET vmid == t[n].vmid
        out == DestroyOutcome(v, vmid, F)
    IN IF vmid = Null
          THEN [t |-> t, vms |-> v, ops |-> <<>>, gone |-> {}, ok |-> TRUE]
          ELSE [t |-> t,
                vms |-> IF out = "ok" THEN Destroyed(v, vmid) ELSE v,
                ops |-> << <<"destroy", vmid>> >>,
                gone |-> IF out = "ok" THEN {vmid} ELSE {},
                ok |-> out # "error"]

\* ------------------------------------------------- proxmox.py: publish
\* add_template_metadata: the record is stamped before `qm set --description`
add_template_metadata(tpl, is_update, time) ==
    IF is_update
       THEN [tpl EXCEPT !.last_update = time]
       ELSE [tpl EXCEPT !.build_date = time, !.last_update = Null]

\* the except block of import_template: `qm destroy <vmid>` unless the error
\* says "already exists"; a failing cleanup is only logged
Cleanup(v, vmid, F) ==
    IF vmid \in Vmids /\ v[vmid].kind # "none" /\ "cleanup" \notin F
       THEN Destroyed(v, vmid) ELSE v
CleanupGone(v, vmid, F) ==
    IF vmid \in Vmids /\ v[vmid].kind # "none" /\ "cleanup" \notin F
       THEN {vmid} ELSE {}

Raised(t, v, ops, gone) ==
    [t |-> t, vms |-> v, ops |-> ops, gone |-> gone, ok |-> FALSE]

\* the steps of import_template from `qm create` on, for identifier vmid
CreateAndMark(t, v, n, vmid, is_update, F, time, pre) ==
    IF vmid \notin Vmids
       THEN Raised(t, v, pre, {})      \* beyond the modelled identifiers
    ELSE IF v[vmid].kind # "none"
       THEN \* qm create fails: "already exists", no cleanup
            Raised(t, v, pre \o << <<"create", vmid>> >>, {})
    ELSE IF "create" \in F
       THEN Raised(t, v, pre \o << <<"create", vmid>>, <<"destroy", vmid>> >>, {})
    ELSE LET v1 == [v EXCEPT ![vmid] = VM(n, "vm")]
             t2 == [t EXCEPT ![n] = add_template_metadata(t[n], is_update, time)]
         IN IF "configure" \in F
               THEN Raised(t, Cleanup(v1, vmid, F),
                           pre \o << <<"create", vmid>>, <<"destroy", vmid>> >>,
                           CleanupGone(v1, vmid, F))
            ELSE IF "template" \in F
               THEN Raised(t2, Cleanup(v1, vmid, F),
                           pre \o << <<"create", vmid>>, <<"destroy", vmid>> >>,
                           CleanupGone(v1, vmid, F))
            ELSE [t |-> t2, vms |-> [v1 EXCEPT ![vmid] = VM(n, "template")],
                  ops |-> pre \o << <<"create", vmid>>, <<"template", vmid>> >>,
                  gone |-> {}, ok |-> TRUE]

\* ProxmoxManager.import_template of proxmox.py; image_exists is
\* image_path.exists()
import_template(t, v, image_exists, n, is_update, F, time) ==
    LET vmid0 == t[n].vmid
    IN IF vmid0 = Null /\ "enumerate" \in F
          THEN \* CalledProcessError of _get_next_vmid reaches the except block
               \* with vmid still None: `qm destroy None`
               Raised(t, v, << <<"destroy", Null>> >>, {})
       ELSE IF vmid0 = Null /\ "parse" \in F
          THEN \* JSONDecodeError of _get_next_vmid is not caught here
               Raised(t, v, <<>>, {})
       ELSE LET vmid == IF vmid0 = Null THEN get_next_vmid(MinVmid, v) ELSE vmid0
                t1 == [t EXCEPT ![n].vmid = vmid]
            IN IF ~image_exists
                  THEN Raised(t1, v, <<>>, {})     \* FileNotFoundError
                  ELSE CreateAndMark(t1, v, n, vmid, is_update, F, time, <<>>)

\* check_for_linked_clones: no storage content, or no base disk, is "no clones"
check_for_linked_clones(v, lk, vmid, F) ==
    IF "storage" \in F THEN FALSE
    ELSE vmid \in Vmids /\ v[vmid].kind # "none" /\ vmid \in lk


\* ------------------------------------------------- template.py: build
\* download_image of template.py. fetch is the outcome of the HTTP transfer:
\* "ok", "request_error" (requests.exceptions.RequestException) or "timeout"
\* (the TimeoutError of the chunk loop, or any other exception).
\* Returns where the working image came from, "raise" when the call raises.
download_image(c, n, use_existing, fetch) ==
    IF use_existing /\ c[n] # "none" THEN "cache"
    ELSE IF fetch = "ok" THEN "download"
    ELSE IF fetch = "request_error"
       THEN (IF c[n] # "none" THEN "fallback" ELSE "raise")
    ELSE "raise"

\* customize_image of template.py, F holding "customize" when virt-customize
\* exits non-zero (or a copy_files entry fails validation) and "timeout" when
\* it runs past CUSTOMIZE_TIMEOUT. proc is the virt-customize subprocess when
\* the call returns: "none" never started, "done" exited with 0, "failed"
\* exited non-zero, "killed" by process.kill() in the timeout branch
customize_imageStampsByBuildDate(tpl, has_work_cfg, update_mode, F, time) ==
    LET st == IF tpl.build_date # Null
              THEN [tpl EXCEPT !.last_update = time]
              ELSE [tpl EXCEPT !.build_date = time, !.last_update = Null]
    IN IF ~(has_work_cfg \/ update_mode)
          THEN [tpl |-> st, ok |-> TRUE, proc |-> "none"]
       ELSE IF "timeout" \in F
          THEN [tpl |-> tpl, ok |-> FALSE, proc |-> "killed"]
       ELSE IF "customize" \in F
          THEN [tpl |-> tpl, ok |-> FALSE, proc |-> "failed"]
       ELSE [tpl |-> st, ok |-> TRUE, proc |-> "done"]
customize_image(tpl, has_work_cfg, update_mode, F, time) ==
    IF ~(has_work_cfg \/ update_mode)
       THEN [tpl |-> [tpl EXCEPT !.build_date = time, !.last_update = Null],
             ok |-> TRUE, proc |-> "none"]
    ELSE IF "timeout" \in F
       THEN [tpl |-> tpl, ok |-> FALSE, proc |-> "killed"]
    ELSE IF "customize" \in F
       THEN [tpl |-> tpl, ok |-> FALSE, proc |-> "failed"]
    ELSE IF update_mode /\ tpl.build_date # Null
       THEN [tpl |-> [tpl EXCEPT !.last_update = time], ok |-> TRUE,
             proc |-> "done"]
    ELSE [tpl |-> [tpl EXCEPT !.build_date = time, !.last_update = Null],
          ok |-> TRUE, proc |-> "done"]

\* build_template of template.py
build_template(t, m, c, n, update, force, fetch, F, time) ==
    LET use_existing == ~force /\ template_exists_locally(t, c, n)
        src == download_image(c, n, use_existing, fetch)
        cu == customize_image(t[n], Catalog[n].has_work, update, F, time)
        t1 == [t EXCEPT ![n] = cu.tpl]
        fetched == IF src = "cache" THEN "none" ELSE fetch
    IN IF src = "raise" \/ "resize" \in F
          THEN [t |-> t, m |-> m, c |-> c, src |-> src, fetch |-> fetched,
                ok |-> FALSE, proc |-> "none"]
       ELSE IF ~cu.ok
          THEN [t |-> t1, m |-> m, c |-> c, src |-> src, fetch |-> fetched,
                ok |-> FALSE, proc |-> cu.proc]
       ELSE IF "copy" \in F
          THEN \* shutil.copy2 fails part-way: the record is stamped, not saved
               [t |-> t1, m |-> m, c |-> [c EXCEPT ![n] = "partial"],
                src |-> src, fetch |-> fetched, ok |-> FALSE, proc |-> cu.proc]
       ELSE [t |-> t1, m |-> t1, c |-> [c EXCEPT ![n] = "complete"],
             src |-> src, fetch |-> fetched, ok |-> TRUE, proc |-> cu.proc]

\* import_from_source of template.py, up to its save_metadata. A URL is
\* streamed straight into the cache path: a RequestException unlinks that file,
\* the TimeoutError of the chunk loop (or any other exception) leaves what was
\* written; a local source is copied onto the cache path with shutil.copy2.
\* The record is replaced by a new one only after the image is in place; the
\* name is not looked up in the catalog.
import_from_source(t, o, c, name, vmid, source, time) ==
    LET rec == [build_date |-> time, last_update |-> Null, vmid |-> vmid]
    IN IF source \in {"url_ok", "local_ok"}
          THEN [t |-> IF name \in Names THEN [t EXCEPT ![name] = rec] ELSE t,
                o |-> IF name \in Names THEN o
                      ELSE [n \in DOMAIN o \cup {name} |->
                               IF n = name THEN rec ELSE o[n]],
                c |-> [c EXCEPT ![name] = "complete"], ok |-> TRUE]
       ELSE IF source = "url_request_error"
          THEN [t |-> t, o |-> o, c |-> [c EXCEPT ![name] = "none"], ok |-> FALSE]
       ELSE IF source \in {"url_timeout", "local_copy_error"}
          THEN [t |-> t, o |-> o, c |-> [c EXCEPT ![name] = "partial"], ok |-> FALSE]
       ELSE [t |-> t, o |-> o, c |-> c, ok |-> FALSE]     \* "local_missing"

\* ---------------------------------------------------------------- sidecar
\* json.dump of one field: None is written as null, a timestamp as a string,
\* an identifier as a number; json.load followed by .get reads it back
JsonValue(x, type) ==
    IF x = Null THEN [type |-> "null", v |-> Null] ELSE [type |-> type, v |-> x]
PyValue(j) == IF j.type = "null" THEN Null ELSE j.v

\* self.templates, catalog names and others alike
Records(t, o) ==
    [n \in Names \cup DOMAIN o |-> IF n \in Names THEN t[n] ELSE o[n]]

\* the document save_metadata dumps: one object per record of self.templates
MetadataDocument(t, o) ==
    [n \in Names \cup DOMAIN o |->
        [build_date  |-> JsonValue(Records(t, o)[n].build_date, "string"),
         last_update |-> JsonValue(Records(t, o)[n].last_update, "string"),
         vmid        |-> JsonValue(Records(t, o)[n].vmid, "number")]]

\* the loop of load_templates over the catalog, given the parsed metadata
FromMetadata(doc) ==
    [n \in Names |->
        IF n \in DOMAIN doc
           THEN [build_date  |-> PyValue(doc[n].build_date),
                 last_update |-> PyValue(doc[n].last_update),
                 vmid        |-> PyValue(doc[n].vmid)]
           ELSE NewTemplate]

\* load_templates of template.py on the sidecar file: a missing file and one
\* that json.load rejects both leave metadata = {}
load_templates_file(sc) ==
    [ok |-> TRUE,
     t |-> FromMetadata(IF sc.status = "whole" THEN sc.doc ELSE NoSidecar.doc)]

\* load_templates of cloudbuilder.py: json.load of the sidecar is not guarded,
\* its JSONDecodeError reaches the handler that calls sys.exit(1)
load_templates_cb(sc) ==
    IF sc.status = "torn" THEN [ok |-> FALSE, t |-> FromMetadata(NoSidecar.doc)]
    ELSE [ok |-> TRUE,
          t |-> FromMetadata(IF sc.status = "whole" THEN sc.doc ELSE NoSidecar.doc)]

\* ------------------------------------------------------------- actions
\* what a source of import_from_source can turn out to be
Sources == {"url_ok", "url_request_error", "url_timeout", "local_ok",
            "local_missing", "local_copy_error"}
FetchOutcomes == {"ok", "request_error", "timeout"}
BuildFails == {{}, {"resize"}, {"customize"}, {"timeout"}, {"copy"}}
RemoveFails == {{}, {"destroy"}}
ImportFails == {{}, {"enumerate"}, {"parse"}, {"create"}, {"configure"},
                {"template"}, {"configure", "cleanup"}, {"template", "cleanup"}}
\* the proxmox_templates dicts a caller can pass, Null for a name that is not
\* a key
Inventories == [Names -> {Null} \cup Vmids]

Done(op, n, ok, src, ops, ret, arg) ==
    [op |-> op, name |-> n, ok |-> ok, src |-> src, ops |-> ops, ret |-> ret,
     arg |-> arg, mid |-> Null, pre |-> Null, fetch |-> "none",
     local |-> FALSE, remote |-> FALSE, again |-> FALSE, proc |-> "none"]

\* TemplateManager.load_templates
LoadTemplates ==
    /\ pc = "idle"
    /\ templates' = load_templates(metadata)
    /\ last' = Done("load", "none", TRUE, "none", <<>>, Null, Null)
    /\ UNCHANGED <<fileVars, metadata, cache, vms, linked, broken, existing, now, ext, mainVars>>

\* TemplateManager.sync_metadata_with_proxmox(proxmox_templates), with its
\* save_metadata
SyncMetadata ==
    /\ pc = "idle"
    /\ \E proxmox_templates \in Inventories :
          /\ templates' = sync_metadata_with_proxmox(templates, proxmox_templates)
          /\ last' = Done("sync", "none", TRUE, "none", <<>>, templates,
                          proxmox_templates)
    /\ metadata' = templates'
    /\ UNCHANGED <<fileVars, cache, vms, linked, broken, existing, now, ext, mainVars>>

\* TemplateManager.build_template(templates[n], update, force)
BuildTemplate ==
    /\ pc = "idle"
    /\ \E n \in Names, update \in BOOLEAN, force \in BOOLEAN,
          fetch \in FetchOutcomes, F \in BuildFails :
          /\ fetch = "ok" \/ F = {}          \* one fault per call
          /\ \E r \in {build_template(templates, metadata, cache, n, update, force,
                                      fetch, F, now)} :
             /\ templates' = r.t
             /\ metadata' = r.m
             /\ cache' = r.c
             /\ last' = [Done("build", n, r.ok, r.src, <<>>, Null,
                              [update |-> update])
                           EXCEPT !.local = cache[n] = "complete",
                                  !.fetch = r.fetch,
                                  !.proc = r.proc]
    /\ UNCHANGED <<fileVars, vms, linked, broken, existing, now, ext, mainVars>>

\* TemplateManager.import_from_source(n, source, vmid), up to the point where
\* its save_metadata has opened the sidecar for writing
ImportFromSource ==
    /\ pc = "idle"
    /\ \E n \in AllNames, vmid \in {Null, MinVmid}, source \in Sources :
          \E r \in {import_from_source(templates, others, cache, n, vmid, source,
                                       now)} :
             /\ templates' = r.t
             /\ others' = r.o
             /\ cache' = r.c
             /\ sidecar' = IF r.ok THEN [sidecar EXCEPT !.status = "torn"]
                           ELSE sidecar
             /\ pc' = IF r.ok THEN "saving" ELSE pc
             /\ last' = [Done("import_from_source", n, r.ok, source, <<>>, Null, vmid)
                           EXCEPT !.local = cache[n] = "complete",
                                  !.pre = sidecar.doc]
    /\ UNCHANGED <<metadata, vms, linked, broken, existing, now, ext, args, idx,
                   runs, dependents, passes, config, pubs>>

\* save_metadata, first half: open(self.metadata_file, 'w') truncates the file
SaveMetadata ==
    /\ pc = "idle"
    /\ sidecar' = [sidecar EXCEPT !.status = "torn"]
    /\ pc' = "saving"
    /\ last' = [Done("save_metadata", "none", TRUE, "none", <<>>, Null, Null)
                  EXCEPT !.pre = sidecar.doc]
    /\ UNCHANGED <<templates, metadata, cache, vms, linked, broken, existing, now,
                   ext, args, idx, runs, dependents, passes, others, config, pubs>>

\* save_metadata, second half: json.dump has written the whole document and
\* the file is closed
SaveDump ==
    /\ pc = "saving"
    /\ sidecar' = [status |-> "whole", doc |-> MetadataDocument(templates, others)]
    /\ metadata' = templates
    /\ pc' = "idle"
    /\ last' = [Done("saved", last.name, TRUE, "none", <<>>, Null, Null)
                  EXCEPT !.pre = Records(templates, others), !.arg = last.pre]
    /\ UNCHANGED <<templates, cache, vms, linked, broken, existing, now, ext, args,
                   idx, runs, dependents, passes, others, config, pubs>>

\* the process is interrupted between the open and the end of the dump; what
\* it held in memory is gone, the next process starts with a load
Kill ==
    /\ pc = "saving"
    /\ pc' = "stopped"
    /\ templates' = [n \in Names |-> NewTemplate]
    /\ others' = NoOthers
    /\ last' = Done("kill", "none", TRUE, "none", <<>>, Null, Null)
    /\ UNCHANGED <<metadata, cache, vms, linked, broken, existing, now, ext, args,
                   idx, runs, dependents, passes, sidecar, config, pubs>>

\* TemplateManager.load_templates of template.py, reading the sidecar file
LoadFromSidecar ==
    /\ pc \in {"idle", "stopped"}
    /\ \E r \in {load_templates_file(sidecar)} :
          /\ templates' = r.t
          /\ last' = [Done("load_sidecar", "none", r.ok, sidecar.status, <<>>, Null,
                           Null)
                        EXCEPT !.again = last.op = "saved",
                               !.pre = IF last.op = "saved" THEN last.pre ELSE Null]
    /\ others' = NoOthers
    /\ pc' = "idle"
    /\ UNCHANGED <<metadata, cache, vms, linked, broken, existing, now, ext, args,
                   idx, runs, dependents, passes, sidecar, config, pubs>>

\* TemplateBuilder.load_templates of cloudbuilder.py, reading the sidecar file
LoadFromSidecarCb ==
    /\ pc \in {"idle", "stopped"}
    /\ \E r \in {load_templates_cb(sidecar)} :
          /\ templates' = r.t
          /\ pc' = IF r.ok THEN "idle" ELSE "stopped"
          /\ last' = [Done("load_sidecar_cb", "none", r.ok, sidecar.status, <<>>,
                           Null, Null)
                        EXCEPT !.again = last.op = "saved",
                               !.pre = IF last.op = "saved" THEN last.pre ELSE Null]
    /\ others' = NoOthers
    /\ UNCHANGED <<metadata, cache, vms, linked, broken, existing, now, ext, args,
                   idx, runs, dependents, passes, sidecar, config, pubs>>

Tick ==
    /\ now < MaxClock
    /\ now' = now + 1
    /\ last' = Idle
    /\ UNCHANGED <<fileVars, templates, metadata, cache, vms, linked, broken, existing, ext,
                   mainVars>>

\* ProxmoxManager.get_existing_templates of proxmox.py
GetExistingTemplates ==
    /\ pc = "idle"
    /\ \E outcome \in ListOutcomes :
          \E r \in {get_existing_templates(vms, outcome)} :
             last' = Done("list", "none", ~r.raised, outcome, <<>>, Null, r.inv)
    /\ UNCHANGED <<fileVars, templates, metadata, cache, vms, linked, broken, existing, now,
                   ext, mainVars>>

\* ProxmoxManager._get_next_vmid of a manager constructed with min_vmid
GetNextVmid ==
    /\ pc = "idle"
    /\ \E min_vmid \in Vmids, failed \in BOOLEAN :
          /\ failed \/ get_next_vmid(min_vmid, vms) \in Vmids
          /\ last' = Done("next_vmid", "none", ~failed, "none", <<>>,
                          IF failed THEN Null ELSE get_next_vmid(min_vmid, vms),
                          min_vmid)
    /\ UNCHANGED <<fileVars, templates, metadata, cache, vms, linked, broken, existing, now,
                   ext, mainVars>>

\* ProxmoxManager.check_for_linked_clones(vmid)
CheckForLinkedClones ==
    /\ pc = "idle"
    /\ \E vmid \in Vmids, F \in {{}, {"storage"}} :
          last' = Done("check", "none", check_for_linked_clones(vms, linked, vmid, F),
                       "none", <<>>, Null, vmid)
    /\ UNCHANGED <<fileVars, templates, metadata, cache, vms, linked, broken, existing, now,
                   ext, mainVars>>

\* ProxmoxManager.remove_template(templates[n])
RemoveTemplate ==
    /\ pc = "idle"
    /\ \E n \in Names, F \in RemoveFails :
          \E r \in {remove_template(templates, vms, n, F)} :
             /\ templates' = r.t
             /\ vms' = r.vms
             /\ linked' = LinkedAfter(r.gone)
             /\ broken' = BrokenAfter(r.gone)
             /\ last' = [Done("remove", n, r.ok,
                              IF templates[n].vmid = Null THEN "none"
                              ELSE DestroyOutcome(vms, templates[n].vmid, F),
                              r.ops, Null, templates[n].vmid)
                           EXCEPT !.again = last.op = "remove" /\ last.name = n
                                            /\ last.ok]
    /\ UNCHANGED <<fileVars, metadata, cache, existing, now, ext, mainVars>>

\* ProxmoxManager.import_template(templates[n], image_path, is_update)
ImportTemplate ==
    /\ pc = "idle"
    /\ \E n \in Names, is_update \in BOOLEAN, image_exists \in BOOLEAN,
          F \in ImportFails :
          /\ image_exists \/ F = {}          \* one fault per call
          /\ \E r \in {import_template(templates, vms, image_exists, n, is_update,
                                       F, now)} :
                /\ r.t[n].vmid \in Vmids \cup {Null}
                /\ templates' = r.t
                /\ vms' = r.vms
                /\ linked' = LinkedAfter(r.gone)
                /\ broken' = BrokenAfter(r.gone)
                /\ last' = [Done("import", n, r.ok, "none", r.ops, Null,
                                 templates[n].vmid)
                              EXCEPT !.src = IF templates[n].vmid = Null
                                                   /\ F \cap {"enumerate", "parse"} # {}
                                                THEN "enumeration failed" ELSE "none"]
    /\ UNCHANGED <<fileVars, metadata, cache, existing, now, ext, mainVars>>

\* ------------------------------------------------------------ other users
ExternalCreate ==
    /\ ext < MaxExt
    /\ \E i \in Vmids :
          /\ vms[i].kind = "none"
          /\ vms' = [vms EXCEPT ![i] = VM("other", "vm")]
    /\ ext' = ext + 1
    /\ last' = Idle
    /\ UNCHANGED <<fileVars, templates, metadata, cache, linked, broken, existing, now, mainVars>>

ExternalDestroy ==
    /\ ext < MaxExt
    /\ \E i \in Vmids :
          /\ vms[i].kind # "none" /\ i \notin linked
          /\ vms' = Destroyed(vms, i)
    /\ ext' = ext + 1
    /\ last' = Idle
    /\ UNCHANGED <<fileVars, templates, metadata, cache, linked, broken, existing, now, mainVars>>

\* another user makes a linked clone of a template
ExternalClone ==
    /\ ext < MaxExt
    /\ \E i \in Vmids :
          /\ vms[i].kind = "template" /\ i \notin linked
          /\ linked' = linked \cup {i}
    /\ ext' = ext + 1
    /\ last' = Idle
    /\ UNCHANGED <<fileVars, templates, metadata, cache, vms, broken, existing, now, mainVars>>

\* ------------------------------------------------------- specifications
\* template.py: the TemplateManager operations in any order
Next ==
    \/ LoadTemplates
    \/ BuildTemplate
    \/ Tick

Spec == Init /\ [][Next]_vars

\* the template manager used to import ready-made images, with its sidecar
NextImport ==
    \/ ImportFromSource
    \/ SaveMetadata
    \/ SaveDump
    \/ Kill
    \/ LoadFromSidecar
    \/ LoadFromSidecarCb

SpecImport == Init /\ [][NextImport]_vars

\* sync_metadata_with_proxmox applied to any records the sidecar can hold
InitSync ==
    /\ templates \in [Names -> [build_date : {Null, 1}, last_update : {Null},
                                vmid : {Null} \cup Vmids]]
    /\ metadata = templates
    /\ cache = [n \in AllNames |-> "none"]
    /\ vms = [v \in Vmids |-> NoVM]
    /\ linked = {}
    /\ broken = {}
    /\ existing = [n \in Names |-> Null]
    /\ now = 1
    /\ ext = 0
    /\ last = Idle
    /\ args = NoArgs
    /\ pc = "idle"
    /\ idx = 1
    /\ runs = 0
    /\ dependents = {}
    /\ passes = <<>>
    /\ sidecar = NoSidecar
    /\ others = NoOthers
    /\ config = NoConfig
    /\ pubs = NoPubs

NextSync ==
    \/ SyncMetadata
    \/ LoadTemplates

SpecSync == InitSync /\ [][NextSync]_vars

\* proxmox.py: the ProxmoxManager operations in any order, among other users
NextProxmox ==
    \/ GetExistingTemplates
    \/ GetNextVmid
    \/ CheckForLinkedClones
    \/ RemoveTemplate
    \/ ImportTemplate
    \/ ExternalCreate
    \/ ExternalDestroy
    \/ ExternalClone

SpecProxmox == Init /\ [][NextProxmox]_vars


\* ------------------------------------------- cloudbuilder.py: its own classes
\* TemplateBuilder.download_image: the cached file is used whenever it exists
\* (image_url is set for every catalog entry), else the image is downloaded
download_image_cb(c, n, fetch) ==
    IF c[n] # "none" THEN "cache"
    ELSE IF fetch = "ok" THEN "download"
    ELSE "raise"

\* TemplateBuilder.customize_image: stamps by build_date alone, then saves
customize_image_cbStampsFirst(tpl, F, time) ==
    LET st == IF tpl.build_date # Null
              THEN [tpl EXCEPT !.last_update = time]
              ELSE [tpl EXCEPT !.build_date = time]
    IN IF "timeout" \in F
          THEN [tpl |-> st, ok |-> FALSE, proc |-> "killed"]
       ELSE IF "customize" \in F
          THEN [tpl |-> st, ok |-> FALSE, proc |-> "failed"]
       ELSE [tpl |-> st, ok |-> TRUE, proc |-> "done"]
customize_image_cb(tpl, F, time) ==
    IF "timeout" \in F
       THEN [tpl |-> tpl, ok |-> FALSE, proc |-> "killed"]
    ELSE IF "customize" \in F
       THEN [tpl |-> tpl, ok |-> FALSE, proc |-> "failed"]
    ELSE IF tpl.build_date # Null
       THEN [tpl |-> [tpl EXCEPT !.last_update = time], ok |-> TRUE,
             proc |-> "done"]
    ELSE [tpl |-> [tpl EXCEPT !.build_date = time], ok |-> TRUE,
          proc |-> "done"]

\* ProxmoxManager.add_template_note of cloudbuilder.py
add_template_note(tpl, is_update, time) ==
    IF is_update
       THEN [tpl EXCEPT !.last_update = time]
       ELSE [tpl EXCEPT !.build_date = time]

\* `qm status` / `qm config` of import_template: does the record's vmid name an
\* entity whose config mentions the template's name
VmidVerified(v, n, vmid, F) ==
    /\ vmid \in Vmids
    /\ v[vmid].kind # "none"
    /\ "status" \notin F
    /\ v[vmid].name = n

\* the steps of cloudbuilder.py's import_template from `qm create` on. Its
\* `qm set` also adds the cloud-init drive (--ide2 <storage>:cloudinit): with
\* "stale" in F that command fails because a volume of that name is left over,
\* and its stderr says "already exists", the text the except block takes for
\* a refused `qm create`
CreateAndMarkCb(t, v, n, vmid, is_update, F, time, pre) ==
    IF vmid \notin Vmids
       THEN Raised(t, v, pre, {})      \* beyond the modelled identifiers
    ELSE IF v[vmid].kind # "none"
       THEN Raised(t, v, pre \o << <<"create", vmid>> >>, {})
    ELSE IF "create" \in F
       THEN Raised(t, v, pre \o << <<"create", vmid>>, <<"destroy", vmid>> >>, {})
    ELSE LET v1 == [v EXCEPT ![vmid] = VM(n, "vm")]
             t2 == [t EXCEPT ![n] = add_template_note(t[n], is_update, time)]
         IN IF "configure" \in F /\ "stale" \in F
               THEN Raised(t, v1, pre \o << <<"create", vmid>> >>, {})
            ELSE IF "configure" \in F
               THEN Raised(t, Cleanup(v1, vmid, F),
                           pre \o << <<"create", vmid>>, <<"destroy", vmid>> >>,
                           CleanupGone(v1, vmid, F))
            ELSE IF "template" \in F
               THEN Raised(t2, Cleanup(v1, vmid, F),
                           pre \o << <<"create", vmid>>, <<"destroy", vmid>> >>,
                           CleanupGone(v1, vmid, F))
            ELSE [t |-> t2, vms |-> [v1 EXCEPT ![vmid] = VM(n, "template")],
                  ops |-> pre \o << <<"create", vmid>>, <<"template", vmid>> >>,
                  gone |-> {}, ok |-> TRUE]

\* ProxmoxManager.import_template of cloudbuilder.py: a vmid that `qm status`
\* does not find, or whose config lacks the name, is dropped for a new one
import_template_cb(t, v, n, is_update, F, time, pre) ==
    LET keep == t[n].vmid # Null /\ VmidVerified(v, n, t[n].vmid, F)
        t0 == IF keep THEN t ELSE [t EXCEPT ![n].vmid = Null]
    IN IF ~keep /\ "enumerate" \in F
          THEN Raised(t0, v, pre \o << <<"destroy", Null>> >>, {})
       ELSE IF ~keep /\ "parse" \in F
          THEN Raised(t0, v, pre, {})
       ELSE LET vmid == IF keep THEN t[n].vmid ELSE get_next_vmid(MinVmid, v)
                t1 == [t0 EXCEPT ![n].vmid = vmid]
            IN CreateAndMarkCb(t1, v, n, vmid, is_update, F, time, pre)

\* lines 590-603 of main: the old entity is destroyed in place; "does not
\* exist" clears the record's vmid, any other error is raised
DestroyOld(t, v, n, F) ==
    LET vmid == t[n].vmid
        out == DestroyOutcome(v, vmid, F)
    IN [t |-> IF out = "does not exist" THEN [t EXCEPT ![n].vmid = Null] ELSE t,
        vms |-> IF out = "ok" THEN Destroyed(v, vmid) ELSE v,
        ops |-> << <<"destroy", vmid>> >>,
        gone |-> IF out = "ok" THEN {vmid} ELSE {},
        ok |-> out # "error"]


\* ----------------------------------------------------- cloudbuilder.py: main
Args == [import_templates : BOOLEAN, update : BOOLEAN, replace : BOOLEAN]
MainFails == {{}, {"customize"}, {"destroy"}, {"status"}, {"enumerate"}, {"parse"},
              {"create"}, {"configure"}, {"template"}, {"copy"},
              {"configure", "cleanup"}, {"template", "cleanup"},
              {"configure", "stale"}}

NoOps(t, v) == [t |-> t, vms |-> v, ops |-> <<>>, gone |-> {}, ok |-> TRUE]

\* lines 559-575 of main: the two `continue` branches
SkipOnlyWithoutImport(a, local, remote) ==
    ~a.import_templates /\ local /\ ~a.update /\ ~a.replace
Skip(a, local, remote) ==
    IF ~a.import_templates
       THEN local /\ ~a.update /\ ~a.replace
       ELSE local /\ remote /\ ~a.update /\ ~a.replace

\* the order of lines 586-603: download_image and customize_image are called,
\* and must have returned, before the old entity is destroyed; d is what the
\* destroy does, none what the pass has done when the build raised
DestroyBeforeBuild(build_ok, d, none) == d
DestroyAfterBuild(build_ok, d, none) == IF build_ok THEN d ELSE none

\* one pass of the for loop of main (lines 549-616) for template n. The except
\* clause at 614 ends a failed pass; what the pass changed before stays changed.
ProcessOne(t, m, c, v, ex, a, n, fetch, F, time) ==
    LET template_exists_locally_ == c[n] # "none" /\ t[n].build_date # Null
        template_exists_in_proxmox == ex[n] # Null
        t0 == IF template_exists_in_proxmox THEN [t EXCEPT ![n].vmid = ex[n]] ELSE t
        skip == Skip(a, template_exists_locally_, template_exists_in_proxmox)
        src == download_image_cb(c, n, fetch)
        cu == customize_image_cb(t0[n], F, time)
        t1 == [t0 EXCEPT ![n] = cu.tpl]
        d == IF a.import_templates /\ template_exists_in_proxmox
                /\ (a.update \/ a.replace)
             THEN DestroyOld(t1, v, n, F) ELSE NoOps(t1, v)
        im == IF a.import_templates
              THEN import_template_cb(d.t, d.vms, n, a.update, F, time, d.ops)
              ELSE NoOps(d.t, d.vms)
        out(tt, mm, cc, vv, ss, oo, gg, okk) ==
            [t |-> tt, m |-> mm, c |-> cc, vms |-> vv, src |-> ss, ops |-> oo,
             gone |-> gg, ok |-> okk, local |-> template_exists_locally_,
             remote |-> template_exists_in_proxmox,
             mid |-> IF oo # <<>> /\ d.ops # <<>> THEN d.t[n].vmid ELSE Null]
        dd == DestroyAfterBuild(src # "raise" /\ cu.ok, d, NoOps(t0, v))
    IN IF skip THEN out(t0, m, c, v, "skipped", <<>>, {}, TRUE)
       ELSE IF src = "raise"
          THEN out(dd.t, m, c, dd.vms, "none", dd.ops, dd.gone, FALSE)
       ELSE IF ~cu.ok THEN out(dd.t, m, c, dd.vms, src, dd.ops, dd.gone, FALSE)
       ELSE IF ~d.ok THEN out(d.t, t1, c, d.vms, src, d.ops, d.gone, FALSE)
       ELSE IF ~im.ok
          THEN out(im.t, t1, c, im.vms, src, im.ops, d.gone \cup im.gone, FALSE)
       ELSE IF a.replace
          THEN out(im.t, t1, c, im.vms, src, im.ops, d.gone, TRUE)
       ELSE IF "copy" \in F
          THEN out(im.t, t1, [c EXCEPT ![n] = "partial"], im.vms, src, im.ops,
                   d.gone, FALSE)
       ELSE out(im.t, im.t, [c EXCEPT ![n] = "complete"], im.vms, src, im.ops,
                d.gone, TRUE)

\* whether the pass recorded in l called customize_image (line 587): every
\* pass that is not skipped does, once download_image has returned
Customized(l) == l.op = "process" /\ l.src \in {"cache", "download"}

\* the position the loop goes on from after a pass at position i: the except
\* clause of the pass (lines 614-616) logs and continues
AfterPassStopsOnFailure(ok, i) == IF ok THEN i + 1 ELSE Len(Order) + 1
AfterPass(ok, i) == i + 1

\* main up to the loop: load_templates, get_existing_templates
StartRun ==
    /\ pc = "idle"
    /\ runs < MaxRuns
    /\ \E a \in Args, outcome \in ListOutcomes :
          \E r \in {get_existing_templates_cb(vms, outcome)} :
             /\ args' = a
             /\ existing' = r.inv
             /\ pc' = IF r.raised THEN "idle" ELSE "loop"
             /\ last' = Done("start", "none", ~r.raised, outcome, <<>>, Null, Null)
    /\ dependents' = {n \in Names : existing'[n] # Null /\ existing'[n] \in linked}
    /\ passes' = <<>>
    /\ templates' = load_templates(metadata)
    /\ idx' = 1
    /\ runs' = runs + 1
    /\ UNCHANGED <<fileVars, metadata, cache, vms, linked, broken, now, ext>>

\* one pass of the loop
ProcessTemplate ==
    /\ pc = "loop"
    /\ idx <= Len(Order)
    /\ \E fetch \in {"ok", "timeout"}, F \in MainFails :
          \E n \in {Order[idx]} :
          \E r \in {ProcessOne(templates, metadata, cache, vms, existing, args, n,
                               fetch, F, now)} :
             /\ r.t[n].vmid \in Vmids \cup {Null}
             /\ templates' = r.t
             /\ metadata' = r.m
             /\ cache' = r.c
             /\ vms' = r.vms
             /\ linked' = LinkedAfter(r.gone)
             /\ broken' = BrokenAfter(r.gone)
             /\ last' = [op |-> "process", name |-> n, ok |-> r.ok, src |-> r.src,
                         ops |-> r.ops, ret |-> r.t[n].vmid, arg |-> existing[n],
                         mid |-> r.mid, pre |-> templates[n], fetch |-> "none",
                         local |-> r.local, remote |-> r.remote,
                         again |-> FALSE]
             /\ passes' = Append(passes, r.ok)
             /\ idx' = AfterPass(r.ok, idx)
    /\ UNCHANGED <<fileVars, existing, now, ext, args, pc, runs, dependents>>

\* after the loop: the final save_metadata; the next invocation reads a later
\* clock
FinishRun ==
    /\ pc = "loop"
    /\ idx > Len(Order)
    /\ metadata' = templates
    /\ pc' = "idle"
    /\ now' = IF now < MaxClock THEN now + 1 ELSE now
    /\ last' = Idle
    /\ UNCHANGED <<fileVars, templates, cache, vms, linked, broken, existing, ext, args,
                   idx, runs, dependents, passes>>

NextMain ==
    \/ StartRun
    \/ ProcessTemplate
    \/ FinishRun
    \/ ExternalCreate
    \/ ExternalDestroy
    \/ ExternalClone

SpecMain == Init /\ [][NextMain]_vars

\* the invocations of cloudbuilder.py alone, nobody else using the hypervisor
NextRun ==
    \/ StartRun
    \/ ProcessTemplate
    \/ FinishRun

SpecRun == Init /\ [][NextRun]_vars

\* ----------------------------------------------------------- the catalog
\* the "components" section of a catalog: base and docker both install curl
\* and both place a motd file; bare has none of the three keys
ComponentNames == {"base", "docker", "bare"}
NoFiles == [k \in {} |-> "none"]
Component(c) ==
    CASE c = "base"   -> [install_packages |-> <<"curl", "vim">>,
                          run_commands |-> <<"apt-get clean">>,
                          copy_files |-> [k \in {"motd"} |-> "base"]]
      [] c = "docker" -> [install_packages |-> <<"docker", "curl">>,
                          run_commands |-> <<"systemctl enable docker">>,
                          copy_files |-> [k \in {"motd", "daemon"} |-> "docker"]]
      [] OTHER        -> [install_packages |-> <<>>, run_commands |-> <<>>,
                          copy_files |-> NoFiles]

\* catalog entries: what "uses" names (ghost is no component) and the entry's
\* own packages, commands and files
UsesLists == UNION {[1 .. k -> ComponentNames \cup {"ghost"}] : k \in 0 .. MaxUses}
Entries == [uses : UsesLists,
            install_packages : {<<>>, <<"curl">>, <<"git", "curl">>},
            run_commands : {<<>>, <<"apt-get clean">>},
            copy_files : {NoFiles, [k \in {"motd"} |-> "own"],
                          [k \in {"sshd"} |-> "own"]}]

\* list.extend
ExtendSkipsPresent(list, more) ==
    list \o SelectSeq(more, LAMBDA x : \A i \in 1 .. Len(list) : list[i] # x)
Extend(list, more) == list \o more

\* dict.update
Update(d, e) ==
    [k \in DOMAIN d \cup DOMAIN e |-> IF k \in DOMAIN e THEN e[k] ELSE d[k]]

\* the loop of _resolve_template over "uses", from position i on
RECURSIVE ApplyComponents(_, _, _)
ApplyComponents(uses, i, resolved) ==
    IF i > Len(uses) THEN resolved
    ELSE IF uses[i] \notin ComponentNames
       THEN [resolved EXCEPT !.ok = FALSE]            \* raise ValueError
    ELSE ApplyComponents(uses, i + 1,
            [ok |-> TRUE,
             install_packages |-> Extend(resolved.install_packages,
                                         Component(uses[i]).install_packages),
             run_commands |-> Extend(resolved.run_commands,
                                     Component(uses[i]).run_commands),
             copy_files |-> Update(resolved.copy_files,
                                   Component(uses[i]).copy_files)])

_resolve_template(template_config) ==
    LET r == ApplyComponents(template_config.uses, 1,
                [ok |-> TRUE, install_packages |-> <<>>, run_commands |-> <<>>,
                 copy_files |-> NoFiles])
    IN IF ~r.ok THEN r
       ELSE [ok |-> TRUE,
             install_packages |-> Extend(r.install_packages,
                                         template_config.install_packages),
             run_commands |-> Extend(r.run_commands, template_config.run_commands),
             copy_files |-> Update(r.copy_files, template_config.copy_files)]

\* names, as sequences of characters: a stem drawn from one character of each
\* kind the pattern tells apart (SP is a blank, LF a newline), followed by a run
\* of "a" that brings the length up to the limit
PROXMOX_NAME_MAX_LENGTH == 63
Alnum == {"a", "0"}
Chars == Alnum \cup {"-", ".", "_", "SP", "LF"}
Stems == UNION {[1 .. k -> Chars] : k \in 0 .. MaxStem}
Pads == {0, PROXMOX_NAME_MAX_LENGTH - 2, PROXMOX_NAME_MAX_LENGTH - 1,
         PROXMOX_NAME_MAX_LENGTH}
NameInputs == {stem \o [i \in 1 .. pad |-> "a"] : stem \in Stems, pad \in Pads}

\* PROXMOX_NAME_PATTERN.match(name) for ^[a-zA-Z0-9][a-zA-Z0-9._-]*$ : in
\* Python, $ matches at the end of the string and also just before a newline
\* that ends the string
PROXMOX_NAME_PATTERN(name) ==
    LET body == IF Len(name) > 0 /\ name[Len(name)] = "LF"
                   THEN SubSeq(name, 1, Len(name) - 1) ELSE name
    IN /\ Len(body) >= 1
       /\ body[1] \in Alnum
       /\ \A i \in 2 .. Len(body) : body[i] \in Alnum \cup {".", "_", "-"}

\* validate_template_name: "ok", or the ValueError it raises
validate_template_name(name) ==
    IF Len(name) = 0 THEN "empty"
    ELSE IF Len(name) > PROXMOX_NAME_MAX_LENGTH THEN "too long"
    ELSE IF ~PROXMOX_NAME_PATTERN(name) THEN "invalid characters"
    ELSE "ok"

\* the keys of a catalog file in the order of the file: valid names, a name
\* that starts with a hyphen, a name with a blank, the empty name
CatalogNames == {<<"a">>, <<"0">>, <<"-", "a">>, <<"a", "SP">>, <<>>}
Catalogs ==
    {c \in UNION {[1 .. k -> CatalogNames] : k \in 1 .. MaxEntries} :
        \A i, j \in DOMAIN c : c[i] = c[j] => i = j}

\* the for loop of load_templates of template.py over the catalog's keys:
\* validate_template_name raises ValueError out of the loop and out of
\* load_templates, whose except clause names other exceptions; self.templates
\* then holds the entries before that key
load_catalog(names) ==
    LET bad == {i \in DOMAIN names : validate_template_name(names[i]) # "ok"}
        stop == IF bad = {} THEN Len(names) + 1
                ELSE CHOOSE i \in bad : \A j \in bad : i <= j
    IN [loaded |-> SubSeq(names, 1, stop - 1), raised |-> bad # {}]

\* the for loop of load_templates of cloudbuilder.py: no name is validated
load_catalog_cb(names) == [loaded |-> names, raised |-> FALSE]

\* a catalog entry, a name or a catalog, not yet handed to the function that
\* takes it
InitConfig ==
    /\ templates = [n \in Names |-> NewTemplate]
    /\ metadata = [n \in Names |-> NewTemplate]
    /\ cache = [n \in AllNames |-> "none"]
    /\ vms = [v \in Vmids |-> NoVM]
    /\ linked = {}
    /\ broken = {}
    /\ existing = [n \in Names |-> Null]
    /\ now = 1
    /\ ext = 0
    /\ last \in {[Idle EXCEPT !.op = "entry", !.arg = e] : e \in Entries}
                \cup {[Idle EXCEPT !.op = "chars", !.arg = s] : s \in NameInputs}
                \cup {[Idle EXCEPT !.op = "catalog", !.arg = c] : c \in Catalogs}
    /\ args = NoArgs
    /\ pc = "idle"
    /\ idx = 1
    /\ runs = 0
    /\ dependents = {}
    /\ passes = <<>>
    /\ sidecar = NoSidecar
    /\ others = NoOthers
    /\ config = NoConfig
    /\ pubs = NoPubs

\* TemplateManager._resolve_template(name, template_config, components)
ResolveTemplate ==
    /\ last.op = "entry"
    /\ \E r \in {_resolve_template(last.arg)} :
          last' = [last EXCEPT !.op = "resolve", !.ok = r.ok, !.ret = r]
    /\ UNCHANGED <<templates, metadata, cache, vms, linked, broken, existing, now,
                   ext, mainVars, fileVars>>

\* validate_template_name(name)
ValidateName ==
    /\ last.op = "chars"
    /\ \E r \in {validate_template_name(last.arg)} :
          last' = [last EXCEPT !.op = "validate", !.ok = r = "ok", !.src = r]
    /\ UNCHANGED <<templates, metadata, cache, vms, linked, broken, existing, now,
                   ext, mainVars, fileVars>>

\* TemplateManager.load_templates of template.py on the catalog
LoadCatalog ==
    /\ last.op = "catalog"
    /\ \E r \in {load_catalog(last.arg)} :
          last' = [last EXCEPT !.op = "load_catalog", !.ok = ~r.raised,
                               !.ret = r.loaded]
    /\ UNCHANGED <<templates, metadata, cache, vms, linked, broken, existing, now,
                   ext, mainVars, fileVars>>

\* TemplateBuilder.load_templates of cloudbuilder.py on the catalog
LoadCatalogCb ==
    /\ last.op = "catalog"
    /\ \E r \in {load_catalog_cb(last.arg)} :
          last' = [last EXCEPT !.op = "load_catalog_cb", !.ok = ~r.raised,
                               !.ret = r.loaded]
    /\ UNCHANGED <<templates, metadata, cache, vms, linked, broken, existing, now,
                   ext, mainVars, fileVars>>

NextConfig ==
    \/ ResolveTemplate
    \/ ValidateName
    \/ LoadCatalog
    \/ LoadCatalogCb

SpecConfig == InitConfig /\ [][NextConfig]_vars

\* ------------------------------- customization, by either implementation
CustomizeFails == {{}, {"customize"}, {"timeout"}}

\* TemplateBuilder.customize_image of cloudbuilder.py on a working copy: after
\* a successful virt-customize it stamps the record and calls save_metadata
CustomizeImageCb ==
    /\ pc = "idle"
    /\ \E n \in Names, F \in CustomizeFails :
          \E cu \in {customize_image_cb(templates[n], F, now)} :
             /\ templates' = [templates EXCEPT ![n] = cu.tpl]
             /\ metadata' = IF cu.ok THEN templates' ELSE metadata
             /\ last' = [Done("customize_cb", n, cu.ok, "none", <<>>, Null, Null)
                           EXCEPT !.proc = cu.proc]
    /\ UNCHANGED <<cache, fileVars, vms, linked, broken, existing, now, ext,
                   mainVars>>

NextCustomize ==
    \/ BuildTemplate
    \/ CustomizeImageCb
    \/ Tick

SpecCustomize == Init /\ [][NextCustomize]_vars

\* ------------------------------ import_template, command by command
\* the commands of import_template that can exit non-zero: "create", "disk"
\* (qm set --scsi0 ...import-from), "boot", "cloudinit" (qm set --ide2; with
\* "stale" its stderr names an existing volume, "free" then fails the cleanup
\* of that volume and "retry" the second qm set --ide2), "firewall" (pvesh set
\* .../firewall/options), "description" (qm set --description) and "template"
PublishFails == {{}, {"create"}, {"disk"}, {"boot"}, {"cloudinit"},
                 {"cloudinit", "stale"}, {"cloudinit", "stale", "free"},
                 {"cloudinit", "stale", "retry"}, {"firewall"},
                 {"description"}, {"template"}}

\* which of these failures reach the except block of import_template: the
\* CalledProcessError of the cloud-init drive and of the description are
\* caught where they occur and logged
Propagated(F) ==
    IF "create" \in F THEN {"create"}
    ELSE IF F \cap {"disk", "boot", "firewall"} # {} THEN {"configure"}
    ELSE IF "template" \in F THEN {"template"}
    ELSE {}

\* the commands that took effect on the entity, in the order they were run
EntitySteps(F) ==
    LET cloudinit == \/ "cloudinit" \notin F
                     \/ /\ "stale" \in F
                        /\ "free" \notin F
                        /\ "retry" \notin F
        upto(k) == SubSeq(<<"create", "disk", "boot">>, 1, k)
        tail == (IF cloudinit THEN <<"cloudinit">> ELSE <<>>)
                \o (IF "firewall" \in F THEN <<>>
                    ELSE <<"firewall">>
                         \o (IF "description" \in F THEN <<>>
                             ELSE <<"description">>)
                         \o (IF "template" \in F THEN <<>>
                             ELSE <<"template">>))
    IN IF "create" \in F THEN upto(0)
       ELSE IF "disk" \in F THEN upto(1)
       ELSE IF "boot" \in F THEN upto(2)
       ELSE upto(3) \o tail

\* ProxmoxManager.import_template with an image that exists, recording what
\* the entity it returns has had applied
ImportTemplateSteps ==
    /\ pc = "idle"
    /\ \E n \in Names, is_update \in BOOLEAN, F \in PublishFails :
          \E r \in {import_template(templates, vms, TRUE, n, is_update,
                                    Propagated(F), now)} :
             /\ r.t[n].vmid \in Vmids \cup {Null}
             /\ templates' = r.t
             /\ vms' = r.vms
             /\ linked' = LinkedAfter(r.gone)
             /\ broken' = BrokenAfter(r.gone)
             /\ last' = Done("publish", n, r.ok, "none", r.ops,
                             IF r.ok THEN EntitySteps(F) ELSE <<>>,
                             templates[n].vmid)
    /\ UNCHANGED <<fileVars, metadata, cache, existing, now, ext, mainVars>>

NextPublish ==
    \/ ImportTemplateSteps
    \/ RemoveTemplate
    \/ Tick

SpecPublish == Init /\ [][NextPublish]_vars

\* ------------------------- import_template in two processes at once
\* each process publishes its own template
PublishedBy(p) == Order[p]

\* `qm create <vmid> --name <name>`: refused with "already exists" when the
\* identifier is taken, which the except block of import_template exempts
\* from its `qm destroy`; cleanup says whether that destroy is run
qm_createAlwaysCleansUp(v, vmid, name, F) ==
    IF v[vmid].kind # "none"
       THEN [vms |-> v, ok |-> FALSE, cleanup |-> TRUE]
    ELSE IF "create" \in F
       THEN [vms |-> v, ok |-> FALSE, cleanup |-> TRUE]
    ELSE [vms |-> [v EXCEPT ![vmid] = VM(name, "vm")], ok |-> TRUE,
          cleanup |-> FALSE]
qm_create(v, vmid, name, F) ==
    IF v[vmid].kind # "none"
       THEN [vms |-> v, ok |-> FALSE, cleanup |-> FALSE]
    ELSE IF "create" \in F
       THEN [vms |-> v, ok |-> FALSE, cleanup |-> TRUE]
    ELSE [vms |-> [v EXCEPT ![vmid] = VM(name, "vm")], ok |-> TRUE,
          cleanup |-> FALSE]

\* import_template up to `template.vmid = vmid`: _get_next_vmid asks the
\* cluster for its entities at this moment
RaceAllocate ==
    /\ \E p \in Procs, failed \in BOOLEAN :
          /\ pubs[p].phase = "idle"
          /\ failed \/ get_next_vmid(MinVmid, vms) \in Vmids
          /\ pubs' = [pubs EXCEPT ![p] =
                         IF failed THEN [phase |-> "failed", vmid |-> Null]
                         ELSE [phase |-> "allocated",
                               vmid |-> get_next_vmid(MinVmid, vms)]]
    /\ UNCHANGED <<templates, metadata, cache, vms, linked, broken, existing,
                   now, ext, last, mainVars, sidecar, others, config>>

\* import_template: qm create, and the except block when it fails
RaceCreate ==
    /\ \E p \in Procs, F \in {{}, {"create"}} :
          /\ pubs[p].phase = "allocated"
          /\ \E r \in {qm_create(vms, pubs[p].vmid, PublishedBy(p), F)} :
                /\ vms' = IF r.cleanup THEN Cleanup(r.vms, pubs[p].vmid, F)
                           ELSE r.vms
                /\ linked' = LinkedAfter(IF r.cleanup
                                         THEN CleanupGone(r.vms, pubs[p].vmid, F)
                                         ELSE {})
                /\ broken' = BrokenAfter(IF r.cleanup
                                         THEN CleanupGone(r.vms, pubs[p].vmid, F)
                                         ELSE {})
                /\ pubs' = [pubs EXCEPT ![p].phase =
                                          IF r.ok THEN "created" ELSE "failed"]
    /\ UNCHANGED <<templates, metadata, cache, existing, now, ext, last,
                   mainVars, sidecar, others, config>>

\* import_template from the disk import to `qm template`, and the except
\* block when one of these commands fails
RaceFinish ==
    /\ \E p \in Procs,
          F \in {{}, {"configure"}, {"template"}, {"configure", "cleanup"}} :
          /\ pubs[p].phase = "created"
          /\ vms' = IF F = {}
                     THEN [vms EXCEPT ![pubs[p].vmid] =
                                         VM(PublishedBy(p), "template")]
                     ELSE Cleanup(vms, pubs[p].vmid, F)
          /\ linked' = LinkedAfter(IF F = {} THEN {}
                                   ELSE CleanupGone(vms, pubs[p].vmid, F))
          /\ broken' = BrokenAfter(IF F = {} THEN {}
                                   ELSE CleanupGone(vms, pubs[p].vmid, F))
          /\ pubs' = [pubs EXCEPT ![p].phase = IF F = {} THEN "done" ELSE "failed"]
    /\ UNCHANGED <<templates, metadata, cache, existing, now, ext, last,
                   mainVars, sidecar, others, config>>

\* import_template has returned or raised; the process may call it again
\* with a record that has no identifier
RaceReturn ==
    /\ \E p \in Procs :
          /\ pubs[p].phase \in {"done", "failed"}
          /\ pubs' = [pubs EXCEPT ![p] = [phase |-> "idle", vmid |-> Null]]
    /\ UNCHANGED <<templates, metadata, cache, vms, linked, broken, existing,
                   now, ext, last, mainVars, sidecar, others, config>>

NextRace ==
    \/ RaceAllocate
    \/ RaceCreate
    \/ RaceFinish
    \/ RaceReturn

SpecRace == Init /\ [][NextRace]_vars

\* ------------------------------------- customize_image with copy_files
\* destinations a copy_files entry can name, as character sequences
Dests == {<<>>, <<"/">>, <<"/", "e">>, <<"/", "e", "/">>}

\* str.endswith('/')
EndsWithSlash(d) == Len(d) > 0 /\ d[Len(d)] = "/"

\* a copy_files mapping in its iteration order: whether source_path.exists()
\* and the destination string of each entry
CopyFiles == UNION {[1..k -> [exists : BOOLEAN, dest : Dests]] : k \in 0..MaxFiles}

\* the for loop over template.copy_files.items(): it raises at the first entry
\* whose source is missing (FileNotFoundError) or whose destination does not
\* end with '/' (ValueError)
validate_copy_filesSourceOnly(cf) == \A i \in DOMAIN cf : cf[i].exists
validate_copy_files(cf) ==
    \A i \in DOMAIN cf : cf[i].exists /\ EndsWithSlash(cf[i].dest)

\* customize_image of template.py for an entry with copy_files cf: a non-empty
\* mapping is work; the entries are validated while the command line is put
\* together, before subprocess.Popen
customize_image_cf(tpl, has_work_cfg, cf, update_mode, F, time) ==
    IF ~(has_work_cfg \/ cf # <<>> \/ update_mode)
       THEN customize_image(tpl, FALSE, update_mode, F, time)
    ELSE IF ~validate_copy_files(cf)
       THEN [tpl |-> tpl, ok |-> FALSE, proc |-> "none"]
    ELSE customize_image(tpl, TRUE, update_mode, F, time)

\* a catalog whose entries carry any copy_files mapping
InitCopy ==
    /\ templates = [n \in Names |-> NewTemplate]
    /\ metadata = [n \in Names |-> NewTemplate]
    /\ cache = [n \in AllNames |-> "none"]
    /\ vms = [v \in Vmids |-> NoVM]
    /\ linked = {}
    /\ broken = {}
    /\ existing = [n \in Names |-> Null]
    /\ now = 1
    /\ ext = 0
    /\ last = Idle
    /\ args = NoArgs
    /\ pc = "idle"
    /\ idx = 1
    /\ runs = 0
    /\ dependents = {}
    /\ passes = <<>>
    /\ sidecar = NoSidecar
    /\ others = NoOthers
    /\ config \in [copy_files : CopyFiles]
    /\ pubs = NoPubs

\* TemplateManager.customize_image on a working copy of the image: the record
\* is stamped in memory, nothing is saved and the cache is not touched
CustomizeImage ==
    /\ pc = "idle"
    /\ \E n \in Names, update_mode \in BOOLEAN, F \in CustomizeFails :
          \E cu \in {customize_image_cf(templates[n], Catalog[n].has_work,
                                        config.copy_files, update_mode, F, now)} :
             /\ templates' = [templates EXCEPT ![n] = cu.tpl]
             /\ last' = [Done("customize", n, cu.ok, "none", <<>>, Null,
                              [update |-> update_mode])
                           EXCEPT !.proc = cu.proc]
    /\ UNCHANGED <<metadata, cache, fileVars, vms, linked, broken, existing,
                   now, ext, mainVars>>

NextCopy ==
    \/ CustomizeImage
    \/ Tick

SpecCopy == InitCopy /\ [][NextCopy]_vars

\* ------------------------------------------------------------------ claims
\* C1: in every run and mode, a remote template entity whose identifier has a
\* linked dependent volume is never destroyed or overwritten
C1_LinkedNeverDestroyed == broken = {}

\* C2: in rebuild mode, when a selected template's remote identifier had a
\* dependent linked volume as the run started, the run aborts before any
\* template is built, removed or published: no pass of the loop is made
C2_RunAbortsOnDependent ==
    (pc = "loop" /\ args.import_templates /\ args.replace /\ dependents # {})
        => last.op # "process"

\* C3: after sync_metadata_with_proxmox(remote), every record whose name is a key
\* of remote has identifier remote[name], and every other record has a null
\* identifier, whatever it was before
C3_SyncPostcondition ==
    last.op = "sync" =>
        \A n \in Names :
           /\ templates[n].vmid = last.arg[n]
           /\ metadata[n].vmid = last.arg[n]
C3_Witness ==
    /\ last.op = "sync"
    /\ \E n, m \in Names :
          /\ n # m
          /\ last.arg[n] = Null
          /\ last.arg[m] # Null
          /\ last.ret[n].vmid = last.arg[m]
          /\ templates[n].vmid = Null

\* C4: the allocator returns the smallest identifier >= floor that is not in
\* use cluster-wide: never a used one, and floor itself when nothing is in use
C4_SmallestFree ==
    (last.op = "next_vmid" /\ last.ok) =>
        /\ last.ret >= last.arg
        /\ last.ret \notin UsedVmids(vms)
        /\ \A i \in last.arg .. (last.ret - 1) : i \in UsedVmids(vms)
        /\ (UsedVmids(vms) = {} => last.ret = last.arg)
C4_Witness ==
    /\ last.op = "next_vmid" /\ last.ok
    /\ last.arg \in UsedVmids(vms)
    /\ last.ret > last.arg

\* C5: when the cluster-wide enumeration fails during a publish that needs a new
\* identifier, the publish fails, no identifier is written to the record and no
\* create or destroy is issued
C5_EnumerationFailureIsClean ==
    (last.op = "import" /\ last.src = "enumeration failed") =>
        /\ ~last.ok
        /\ templates[last.name].vmid = Null
        /\ last.ops = <<>>

\* C6: remove(record) does not raise when the entity is already absent (qm
\* destroy says "does not exist"), so a second remove in a row succeeds; only
\* other destroy failures raise
C6_RemoveIdempotent ==
    last.op = "remove" => (last.ok <=> last.src # "error")
C6_Witness ==
    /\ last.op = "remove"
    /\ last.again
    /\ last.arg # Null
    /\ last.src = "does not exist"
    /\ last.ok

\* C7: on every path of a removal (here the removal main makes before it
\* republishes) the record's identifier and timestamps are what they were
C7_RemovalKeepsIdentifier ==
    (last.op = "process" /\ last.ops # <<>> /\ last.ops[1] = <<"destroy", last.arg>>)
        => last.mid = last.arg

\* C8: a run without --update or --replace that publishes, on a template with
\* no cached image and no remote entity: after the pass a template entity of
\* that name exists under the record's identifier, which is >= the floor,
\* build_date is set and last_update is null
C8_NewBuildPublished ==
    (/\ last.op = "process" /\ last.ok
     /\ args.import_templates /\ ~args.update /\ ~args.replace
     /\ last.src = "download" /\ ~last.remote)
        => LET n == last.name
               vmid == templates[n].vmid
           IN /\ vmid \in Vmids
              /\ vmid >= MinVmid
              /\ vms[vmid] = VM(n, "template")
              /\ templates[n].build_date # Null
              /\ templates[n].last_update = Null

\* C9: an --update run on a template that exists locally and remotely builds
\* from the cached image, sets last_update, keeps build_date, and removes the
\* entity and republishes it under the identifier it had
C9_UpdateKeepsIdentifier ==
    (/\ last.op = "process" /\ last.ok
     /\ args.import_templates /\ args.update /\ ~args.replace
     /\ last.local /\ last.remote)
        => LET n == last.name
           IN /\ last.src = "cache"
              /\ templates[n].last_update # Null
              /\ templates[n].build_date = last.pre.build_date
              /\ last.ops = << <<"destroy", last.arg>>, <<"create", last.arg>>,
                               <<"template", last.arg>> >>
              /\ templates[n].vmid = last.arg

\* C10: when the fetch of the source image fails while a built local image
\* exists, the build goes on from that image and the template does not fail
C10_FetchFailureFallsBack ==
    (last.op = "build" /\ last.local /\ last.fetch \in {"request_error", "timeout"})
        => (last.src = "fallback" /\ last.ok)

\* C11: a failure while processing one template is caught at the pass: the run
\* goes on to every later template and reaches its final save
C11_FailureDoesNotStopRun ==
    /\ pc \in {"idle", "loop"}
    /\ (pc = "loop" => Len(passes) = idx - 1)
    /\ (idx > Len(Order) => Len(passes) = Len(Order))
    /\ (pc = "idle" /\ runs > 0 => Len(passes) = Len(Order))
C11_Witness ==
    /\ pc = "idle" /\ runs > 0
    /\ Len(passes) = Len(Order)
    /\ ~passes[1]
    /\ last.op = "none"

\* C12: in every reachable state, after publishes with either is_update value
\* and failed ones too, a record whose build_date is null has last_update null
C12_NoUpdateWithoutBuild ==
    \A n \in Names :
       /\ (templates[n].build_date = Null => templates[n].last_update = Null)
       /\ (metadata[n].build_date = Null => metadata[n].last_update = Null)

\* C13: the image at a template's cache path is absent or complete, never a
\* partial download or a partly written image
C13_CacheAbsentOrComplete == \A n \in Names : cache[n] \in {"none", "complete"}

\* C14: a build or last-update timestamp of a record, in memory or in the
\* sidecar, implies that the finished image of that build is in the cache
C14_StampImpliesCachedImage ==
    \A n \in Names :
       (\/ templates[n].build_date # Null \/ templates[n].last_update # Null
        \/ metadata[n].build_date # Null \/ metadata[n].last_update # Null)
          => cache[n] = "complete"

\* C15: a save of the sidecar is atomic: neither during a save nor after a kill
\* in the middle of one does the file hold a truncated or half-written
\* document
C15_SaveIsAtomic == sidecar.status # "torn"

\* C16: saving a non-empty record set and then loading yields records with the
\* same names and the same three field values
C16_SaveLoadRoundTrip ==
    last.op \in {"load_sidecar", "load_sidecar_cb"} /\ last.again
       => /\ last.ok
          /\ Records(templates, others) = last.pre

\* C17: a record of the sidecar whose name is not in the catalog is still in
\* the sidecar, with the same three field values, after a save (other than the
\* save of an import of that very name, which replaces the record)
C17_UncataloguedRecordRetained ==
    last.op = "saved"
       => \A n \in DOMAIN last.arg \ (Names \cup {last.name}) :
             /\ n \in DOMAIN sidecar.doc
             /\ sidecar.doc[n] = last.arg[n]

\* C18: loading never fails: on a missing sidecar and on a malformed one alike
\* every catalog template loads with null build_date, last_update and vmid
C18_LoadNeverFails ==
    last.op \in {"load_sidecar", "load_sidecar_cb"}
    /\ last.src \in {"missing", "torn"}
       => /\ last.ok
          /\ \A n \in Names : templates[n] = NewTemplate

\* the lists a resolved entry is put together from, in order: one per
\* fragment used, then the entry's own
C19_Parts(e, field) ==
    [k \in 1 .. Len(e.uses) + 1 |->
        IF k <= Len(e.uses) THEN Component(e.uses[k])[field] ELSE e[field]]
RECURSIVE C19_Start(_, _)
C19_Start(parts, k) ==
    IF k = 1 THEN 0 ELSE C19_Start(parts, k - 1) + Len(parts[k - 1])
C19_InOrder(parts, whole) ==
    /\ Len(whole) = C19_Start(parts, Len(parts) + 1)
    /\ \A k \in 1 .. Len(parts) : \A j \in 1 .. Len(parts[k]) :
          whole[C19_Start(parts, k) + j] = parts[k][j]
C19_LastWith(e, key) ==
    CHOOSE i \in 1 .. Len(e.uses) :
       /\ key \in DOMAIN Component(e.uses[i]).copy_files
       /\ \A j \in i + 1 .. Len(e.uses) :
             key \notin DOMAIN Component(e.uses[j]).copy_files

\* C19: a resolved entry has the packages of its fragments, in the order of
\* "uses", followed by its own, every occurrence kept; likewise the commands;
\* and its copy_files holds each key of any fragment or of the entry, with the
\* entry's own value if it has one, else that of the last fragment with the key
C19_MergeOrder ==
    last.op = "resolve" /\ last.ok
       => /\ C19_InOrder(C19_Parts(last.arg, "install_packages"),
                         last.ret.install_packages)
          /\ C19_InOrder(C19_Parts(last.arg, "run_commands"),
                         last.ret.run_commands)
          /\ DOMAIN last.ret.copy_files
                = DOMAIN last.arg.copy_files
                  \cup UNION {DOMAIN Component(last.arg.uses[i]).copy_files :
                                 i \in 1 .. Len(last.arg.uses)}
          /\ \A key \in DOMAIN last.ret.copy_files :
                last.ret.copy_files[key]
                   = IF key \in DOMAIN last.arg.copy_files
                        THEN last.arg.copy_files[key]
                        ELSE Component(last.arg.uses[C19_LastWith(last.arg, key)])
                                .copy_files[key]
C19_Witness ==
    /\ last.op = "resolve" /\ last.ok
    /\ last.arg.uses = <<"base", "docker">>
    /\ last.ret.install_packages
          = <<"curl", "vim", "docker", "curl", "git", "curl">>
    /\ last.ret.run_commands
          = <<"apt-get clean", "systemctl enable docker", "apt-get clean">>
    /\ last.ret.copy_files
          = [k \in {"motd", "daemon"} |-> IF k = "motd" THEN "own" ELSE "docker"]

\* C20: a name is accepted exactly when it is non-empty, at most 63 characters
\* long, made only of alphanumerics, '.', '_' and '-', and does not start
\* with '-'
C20_NameAccepted ==
    last.op = "validate"
       => (last.ok <=> /\ Len(last.arg) > 0
                       /\ Len(last.arg) <= PROXMOX_NAME_MAX_LENGTH
                       /\ \A i \in 1 .. Len(last.arg) :
                             last.arg[i] \in Alnum \cup {".", "_", "-"}
                       /\ last.arg[1] # "-")

\* C21: in a run without --update and --replace, the pass for a template that
\* exists locally (cached image and build_date) and is in the run's remote
\* inventory does nothing: no download, no customization, no destroy, no
\* create; build_date, last_update, the sidecar and the cached image stay
C21_LocalRemoteNoOp ==
    [][(/\ last'.op = "process" /\ idx' # idx
        /\ ~args.update /\ ~args.replace
        /\ last'.local /\ last'.remote)
          => /\ last'.src = "skipped"
             /\ last'.ops = <<>>
             /\ vms' = vms
             /\ cache' = cache
             /\ metadata' = metadata
             /\ templates'[last'.name].build_date
                   = templates[last'.name].build_date
             /\ templates'[last'.name].last_update
                   = templates[last'.name].last_update]_vars
C21_Witness ==
    /\ last.op = "process" /\ last.src = "skipped"
    /\ ~args.update /\ ~args.replace
    /\ last.local /\ last.remote
    /\ cache[last.name] = "complete"
    /\ \E v \in Vmids : vms[v] = VM(last.name, "template")

\* C22: in a publishing run without --update and --replace, a template that
\* exists locally and is not in the remote inventory is published from its
\* cached image as it is: nothing is downloaded or customized, the record's
\* timestamps stay, and a template entity of that name exists afterwards
C22_PublishWithoutRebuild ==
    (/\ last.op = "process" /\ last.ok
     /\ args.import_templates /\ ~args.update /\ ~args.replace
     /\ last.local /\ ~last.remote)
        => /\ last.src # "download"
           /\ ~Customized(last)
           /\ templates[last.name].build_date = last.pre.build_date
           /\ templates[last.name].last_update = last.pre.last_update
           /\ \E v \in Vmids : vms[v] = VM(last.name, "template")

\* C23: in a publishing run without --update and --replace, a template that
\* does not exist locally and is in the remote inventory is built and then
\* published as an overwrite: the publish begins by removing the listed
\* entity, and after a pass that succeeded the name's entity is a template
\* under the record's identifier, built from a fresh download
C23_RemoteOnlyOverwritten ==
    (/\ last.op = "process"
     /\ args.import_templates /\ ~args.update /\ ~args.replace
     /\ ~last.local /\ last.remote)
        => /\ (last.ops # <<>> => last.ops[1] = <<"destroy", last.arg>>)
           /\ (last.ok => /\ last.src = "download"
                           /\ templates[last.name].vmid \in Vmids
                           /\ vms[templates[last.name].vmid]
                                 = VM(last.name, "template"))

\* C24: in a --replace run the working image of a pass is a fresh download,
\* never a copy of the cached image, and when the name is in the remote
\* inventory the publish begins by removing the listed entity
C24_RebuildFetchesFresh ==
    (last.op = "process" /\ args.replace)
        => /\ last.src # "cache"
           /\ (args.import_templates /\ last.remote /\ last.ops # <<>>
                  => last.ops[1] = <<"destroy", last.arg>>)

\* C25: a pass whose publish created an entity and failed before marking it
\* as a template ends with a destroy of that entity (which may itself fail),
\* and the only entity a pass removes besides is the listed one that main
\* itself replaces: the cleanup removes nothing it did not create
C25_CleanupOnlyOwnEntity ==
    [][(last'.op = "process" /\ idx' # idx)
          => \A v \in Vmids :
                /\ (vms[v].kind = "none" /\ vms'[v].kind = "vm"
                       => /\ ~last'.ok
                          /\ last'.ops[Len(last'.ops)] = <<"destroy", v>>)
                /\ (vms[v].kind # "none" /\ vms'[v].kind = "none"
                       => v = last'.arg)]_vars

\* C26: when a run is about to classify its first template, the records have
\* been synchronized with the remote inventory read by that run, in memory and
\* in the sidecar: each identifier is the listed one, or null for a name that
\* is not listed
C26_SyncedBeforeClassification ==
    (pc = "loop" /\ idx = 1)
        => \A n \in Names :
              /\ templates[n].vmid = existing[n]
              /\ metadata[n].vmid = existing[n]

\* C27: in an --update or --replace run that publishes, the listed entity of a
\* template is destroyed only in a pass whose image was downloaded or reused
\* and customized (the stamp of that customization is in the sidecar), and a
\* pass whose build failed leaves every entity as it was
C27_DestroyAfterBuild ==
    [][(/\ last'.op = "process" /\ idx' # idx
        /\ args.import_templates /\ (args.update \/ args.replace)
        /\ last'.remote)
          => /\ (vms' # vms
                   => /\ Customized(last')
                      /\ now \in {metadata'[last'.name].build_date,
                                   metadata'[last'.name].last_update})
             /\ (~Customized(last') => vms' = vms /\ last'.ops = <<>>)]_vars
C27_Witness ==
    /\ last.op = "process" /\ ~last.ok
    /\ args.import_templates /\ args.update
    /\ last.remote
    /\ Customized(last) /\ last.ops = <<>>
    /\ last.arg \in Vmids
    /\ vms[last.arg] = VM(last.name, "template")

\* C28: in an --update or --replace run that publishes a template listed in
\* the remote inventory, a pass that succeeded created the new entity under
\* the identifier the template had: the record still holds it and the entity
\* under it is the name's template
C28_IdentifierSurvivesOverwrite ==
    (/\ last.op = "process" /\ last.ok
     /\ args.import_templates /\ (args.update \/ args.replace)
     /\ last.remote)
        => /\ templates[last.name].vmid = last.arg
           /\ last.ops[Len(last.ops) - 1] = <<"create", last.arg>>
           /\ vms[last.arg] = VM(last.name, "template")

\* C29: a build that succeeds stamps the record: an update of a record
\* that had a build_date sets last_update to now and keeps build_date; any
\* other build (new, forced, update of a never-built record, customization
\* skipped) sets build_date to now and clears last_update; the identifier is
\* kept, the image is in the cache and the sidecar holds the stamped records
C29_BuildStamps ==
    [][(last'.op = "build" /\ last'.ok)
         => LET n == last'.name
            IN /\ IF last'.arg.update /\ templates[n].build_date # Null
                     THEN /\ templates'[n].last_update = now
                          /\ templates'[n].build_date = templates[n].build_date
                     ELSE /\ templates'[n].build_date = now
                          /\ templates'[n].last_update = Null
               /\ templates'[n].vmid = templates[n].vmid
               /\ cache'[n] = "complete"
               /\ metadata' = templates']_vars
C29_Witness ==
    /\ last.op = "build" /\ last.ok
    /\ last.arg.update
    /\ templates[last.name].last_update = now
    /\ templates[last.name].build_date \notin {Null, now}
    /\ metadata = templates

\* C30: a customization that failed, by running past the timeout or by
\* exiting non-zero, has raised to its caller with the subprocess gone (exited,
\* or killed on timeout), and the step has changed neither the record's
\* build_date and last_update nor any cached image
C30_FailedCustomizationChangesNothing ==
    [][(/\ last'.op \in {"build", "customize_cb"}
        /\ last'.proc \notin {"none", "done"})
          => /\ ~last'.ok
             /\ last'.proc \in {"failed", "killed"}
             /\ templates'[last'.name].build_date
                    = templates[last'.name].build_date
             /\ templates'[last'.name].last_update
                    = templates[last'.name].last_update
             /\ cache' = cache]_vars
C30_Witness ==
    /\ last.op = "build" /\ ~last.ok
    /\ last.proc = "killed"
    /\ last.arg.update
    /\ cache[last.name] = "complete"
    /\ templates[last.name].build_date # Null
    /\ metadata = templates

\* C31: when some copy_files entry has a source that does not exist or a
\* destination that does not end with '/', customize_image raises before the
\* customizer subprocess is started and leaves the record as it was
C31_CopyFilesValidatedFirst ==
    [][(/\ last'.op = "customize"
        /\ \E i \in DOMAIN config.copy_files :
              \/ ~config.copy_files[i].exists
              \/ ~EndsWithSlash(config.copy_files[i].dest))
          => /\ ~last'.ok
             /\ last'.proc = "none"
             /\ templates' = templates]_vars
C31_Witness ==
    /\ last.op = "customize" /\ ~last.ok /\ last.proc = "none"
    /\ Len(config.copy_files) = 2
    /\ config.copy_files[1].exists /\ config.copy_files[1].dest = <<"/", "e", "/">>
    /\ config.copy_files[2].exists /\ config.copy_files[2].dest = <<"/", "e">>
    /\ now > 1
    /\ templates[last.name] = NewTemplate

\* C32: when publish returns success, the entity has had the image attached
\* as its disk, a cloud-init drive attached, the firewall options applied and
\* the build metadata written as its description, and was marked as a
\* template as the last of these steps
C32_PublishedEntityComplete ==
    (last.op = "publish" /\ last.ok)
        => /\ \A s \in {"create", "disk", "boot", "cloudinit", "firewall",
                         "description", "template"} :
                 \E i \in DOMAIN last.ret : last.ret[i] = s
           /\ last.ret[Len(last.ret)] = "template"

\* C33: a listing of the remote inventory that failed, by a command error or
\* by an unparsable response, has not raised: the run has an empty inventory
\* and is at the first pass of its loop, every template classified as not
\* remote
C33_ListingFailureIsEmpty ==
    (last.op = "start" /\ last.src \in {"command_error", "unparsable"})
        => /\ last.ok
           /\ existing = NoTemplates
           /\ pc = "loop" /\ idx = 1
C33_Witness ==
    /\ last.op = "start" /\ last.src = "unparsable" /\ last.ok
    /\ existing = NoTemplates
    /\ pc = "loop"
    /\ \E v \in Vmids : vms[v].kind = "template"

\* C34: check_for_linked_clones(vmid) answers true whenever a volume of the
\* storage has a base disk of vmid as its parent, also when the storage
\* content could not be retrieved
C34_LinkedCloneReported ==
    (last.op = "check" /\ last.arg \in linked) => last.ok

C36_InvalidNameSkipsOneTemplate ==
    last.op = "load_catalog"
       => /\ last.ok
          /\ \A i \in DOMAIN last.arg :
                validate_template_name(last.arg[i]) = "ok"
                   => \E j \in DOMAIN last.ret : last.ret[j] = last.arg[i]

\* C37: when a pass that built or published has ended without raising, every
\* change it made to a record (build stamp, identifier, publish stamp) is in
\* the sidecar before the next template is processed
C37_SavedBeforeNextTemplate ==
    (last.op = "process" /\ last.ok /\ Customized(last))
        => metadata = templates

\* C38: through any sequence of remove and publish operations that follows a
\* sync, no two records hold the same identifier, and a record's identifier
\* that names an entity of the cluster names the entity of that template
C38_IdentifiersStayDistinct ==
    /\ \A n, m \in Names :
          (n # m /\ templates[n].vmid # Null)
             => templates[n].vmid # templates[m].vmid
    /\ \A n \in Names :
          (templates[n].vmid \in Vmids /\ vms[templates[n].vmid].kind # "none")
             => vms[templates[n].vmid].name = n

\* C39: whatever the listings of its runs returned, the cluster never holds
\* two entities for one template name
C39_OneEntityPerName ==
    \A n \in Names :
       \A v, w \in Vmids :
          (vms[v].kind # "none" /\ vms[v].name = n
             /\ vms[w].kind # "none" /\ vms[w].name = n) => v = w

====
